---- MODULE Spec2Model ----
(***************************************************************************)
(* State-machine model of the chess server in src/index.js: one shared     *)
(* chess.js instance (`chess`), the synchronous handlers GET /api/board,   *)
(* POST /api/move and POST /api/reset, and the asynchronous handler        *)
(* POST /api/ai-move, which suspends at `await callOpenAiForMove(prompt)`. *)
(* Node runs every handler step between two awaits atomically, so each     *)
(* action below is one such step.                                          *)
(*                                                                         *)
(* The Rules Engine (chess.js) is an external library.  It is modelled by  *)
(* the interface index.js consumes (turn, board, moves, move, history,     *)
(* fen), restricted to a pawn fragment of the game: the starting position  *)
(* holds the white e2 pawn and the black e7 pawn only.                     *)
(***************************************************************************)
EXTENDS Integers, Sequences, FiniteSets, TLC

VARIABLES chess, pc, retries, prompt, calls, recv, entry, last, probe

vars == <<chess, pc, retries, prompt, calls, recv, entry, last, probe>>

(***************************************************************************)
(* Bounds of the model.                                                    *)
(***************************************************************************)
\* The number of POST /api/ai-move requests that may be in flight at once.
MaxInFlight == 1

Requests == 1..MaxInFlight

(***************************************************************************)
(* Program constants.                                                      *)
(***************************************************************************)
\* let retries = 3
RetryBudget == 3

\* const recentMovesCount = 8
recentMovesCount == 8

(***************************************************************************)
(* Rules Engine (chess.js), pawn fragment.                                 *)
(***************************************************************************)
Files == <<"a", "b", "c", "d", "e", "f", "g", "h">>

Rows == 0..7

\* chess.js square name of board()[r][c]
SquareName(r, c) == Files[c + 1] \o ToString(8 - r)

\* new Chess(): white pawn e2, black pawn e7, White to move, no history.
NewChess ==
    [ board   |-> [r \in Rows |-> [c \in Rows |->
                     IF c = 4 /\ r = 6 THEN "pw"
                     ELSE IF c = 4 /\ r = 1 THEN "pb"
                     ELSE "null"]],
      turn    |-> "w",
      history |-> << >> ]

\* chess.turn()
Turn(c) == c.turn

\* chess.board()
Board(c) == c.board

\* chess.history({ verbose: true })
History(c) == c.history

\* chess.moves({ verbose: true }): the legal moves of the side to move.
Moves(c) ==
    LET dir   == IF c.turn = "w" THEN -1 ELSE 1
        home  == IF c.turn = "w" THEN 6 ELSE 1
        own   == "p" \o c.turn
        free(r, f) == r \in Rows /\ c.board[r][f] = "null"
        pawns == {rc \in Rows \X Rows : c.board[rc[1]][rc[2]] = own}
        step(rc, n) == [color |-> c.turn,
                        from  |-> SquareName(rc[1], rc[2]),
                        to    |-> SquareName(rc[1] + n * dir, rc[2])]
    IN  {step(rc, 1) : rc \in {q \in pawns : free(q[1] + dir, q[2])}}
        \cup
        {step(rc, 2) : rc \in {q \in pawns : /\ q[1] = home
                                             /\ free(q[1] + dir, q[2])
                                             /\ free(q[1] + 2 * dir, q[2])}}

\* Whether chess.move({from, to, promotion: 'q'}) returns a move (not null).
MoveAccepted(c, from, to) == \E m \in Moves(c) : m.from = from /\ m.to = to

\* The engine after an accepted chess.move({from, to, promotion: 'q'}).
MoveApplied(c, from, to) ==
    LET m  == CHOOSE x \in Moves(c) : x.from = from /\ x.to = to
        src == CHOOSE rc \in Rows \X Rows : SquareName(rc[1], rc[2]) = from
        dst == CHOOSE rc \in Rows \X Rows : SquareName(rc[1], rc[2]) = to
    IN  [ board   |-> [r \in Rows |-> [f \in Rows |->
                         IF <<r, f>> = dst THEN c.board[src[1]][src[2]]
                         ELSE IF <<r, f>> = src THEN "null"
                         ELSE c.board[r][f]]],
          turn    |-> IF c.turn = "w" THEN "b" ELSE "w",
          history |-> Append(c.history, m) ]

\* chess.fen(): piece placement, side to move and full-move number.
Fen(c) == [placement |-> {<<SquareName(rc[1], rc[2]), c.board[rc[1]][rc[2]]>> :
                            rc \in {q \in Rows \X Rows : c.board[q[1]][q[2]] # "null"}},
           active    |-> c.turn,
           fullmove  |-> 1 + (Len(c.history) \div 2)]

(***************************************************************************)
(* index.js helpers.                                                       *)
(***************************************************************************)
\* unicodeMap[cell.type + cell.color], '.' for an empty cell
unicodeMap(cell) ==
    IF cell = "null" THEN "."
    ELSE IF cell = "pb" THEN "U+265F"
    ELSE IF cell = "pw" THEN "U+2659"
    ELSE "undefined"

getUnicodeBoard(c) == [r \in Rows |-> [f \in Rows |-> unicodeMap(Board(c)[r][f])]]

\* String.fromCharCode(n): the letter for the codes of a..j, and a
\* character that is no file letter for any other code
fromCharCode(n) ==
    IF n \in 97..104 THEN Files[n - 96]
    ELSE IF n \in 105..106 THEN <<"i", "j">>[n - 104]
    ELSE "chr" \o ToString(n)

\* Mutant: the rank grows with the row instead of 8 - row.
coordsToAlgebraic_RankNotFlipped(row, col) == fromCharCode(97 + col) \o ToString(row + 1)

coordsToAlgebraic(row, col) == fromCharCode(97 + col) \o ToString(8 - row)

\* Mutant: the two player names are swapped.
currentPlayer_Swapped(c) == IF Turn(c) = "w" THEN "black" ELSE "white"

\* chess.turn() === 'w' ? 'white' : 'black'
currentPlayer(c) == IF Turn(c) = "w" THEN "white" ELSE "black"

\* The body of a success response: board, currentPlayer and history.
View(c) == [ board         |-> getUnicodeBoard(c),
             currentPlayer |-> currentPlayer(c),
             history       |-> History(c) ]

(***************************************************************************)
(* Prompt Builder.  A prompt is a string built by concatenation; it is     *)
(* modelled as the sequence of its segments: the text of buildOpenAIPrompt *)
(* first, then one segment for every `prompt += note`.                     *)
(***************************************************************************)
ranks == <<"8", "7", "6", "5", "4", "3", "2", "1">>

Max(a, b) == IF a >= b THEN a ELSE b

\* allMoves.slice(sliceStart).map((m, index) => ...)
recentMoves(allMoves) ==
    LET n          == Len(allMoves)
        sliceStart == Max(0, n - recentMovesCount)
    IN  [i \in 1..(n - sliceStart) |->
           LET m       == allMoves[sliceStart + i]
               index   == i - 1
               moveNum == n - recentMovesCount + index + 1
           IN  [ moveNum |-> moveNum,
                 color   |-> IF m.color = "w" THEN "White" ELSE "Black",
                 from    |-> m.from,
                 to      |-> m.to ]]

buildOpenAIPrompt(c) ==
    LET board    == getUnicodeBoard(c)
        allMoves == History(c)
        recent   == recentMoves(allMoves)
    IN  [ fen         |-> Fen(c),
          moves       |-> IF recent = << >> THEN << [text |-> "No moves yet."] >>
                          ELSE recent,
          visualBoard |-> [r \in Rows |-> <<ranks[r + 1], board[r]>>] ]

NoteEmpty ==
    [ text |-> "NOTE: Your previous response was invalid or empty. Please return valid JSON.",
      from |-> "", to |-> "" ]

NoteParse ==
    [ text |-> "NOTE: Could not parse your JSON. Please output strictly valid JSON.",
      from |-> "", to |-> "" ]

NoteIllegal(from, to) ==
    [ text |-> "NOTE: Move {from,to} is illegal or invalid. Please try again.",
      from |-> from, to |-> to ]

(***************************************************************************)
(* Move Oracle Client and JSON.parse, seen from the loop: one call yields  *)
(* null (the call failed or the text holds no {...}), a substring that     *)
(* JSON.parse rejects, or an object whose from and to are strings (the     *)
(* string "undefined" stands for a missing field).                         *)
(***************************************************************************)
AnswerNull == [kind |-> "null", from |-> "", to |-> ""]

AnswerMalformed == [kind |-> "malformed", from |-> "", to |-> ""]

AnswerObject(from, to) == [kind |-> "object", from |-> from, to |-> to]

NoAnswer == [kind |-> "none", from |-> "", to |-> ""]

\* Pairs the oracle may claim whatever the position is.
OraclePairs ==
    { <<"e7", "e5">>, <<"e7", "e4">>, <<"none", "none">>, <<"undefined", "undefined">> }

\* What one oracle call may yield in engine state c.
OracleAnswers(c) ==
    {AnswerNull, AnswerMalformed}
    \cup {AnswerObject(m.from, m.to) : m \in Moves(c)}
    \cup {AnswerObject(q[1], q[2]) : q \in OraclePairs}

(***************************************************************************)
(* HTTP responses.  `last` records the handler step taken last: the        *)
(* request it belongs to and its body (arg), the response it sent (status  *)
(* 0: none yet, the handler is suspended) and, for a step of the           *)
(* elicitation loop, the oracle answer it processed and the number of      *)
(* oracle calls the elicitation has made so far.  `asked` holds the        *)
(* squares the step passed to chess.move, if it called it.                 *)
(***************************************************************************)
ErrMissing == "Missing from/to in request body."

ErrNotWhite == "It is not White's turn."

ErrIllegal == "Illegal move."

ErrNotAI == "It is White's turn, not AI's turn."

ErrExhausted == "AI failed to provide a valid move after multiple attempts."

Ok(c) == [status |-> 200, body |-> View(c)]

Err(msg) == [status |-> 400, body |-> [error |-> msg]]

Pending == [status |-> 0, body |-> [error |-> ""]]

Missing == [missing |-> TRUE]

NoArg == [from |-> Missing, to |-> Missing]

\* chess.move was not called.
NoSquares == [from |-> "", to |-> ""]

Step(op, req, arg, res, answer, n) ==
    [ op |-> op, req |-> req, arg |-> arg, status |-> res.status, body |-> res.body,
      answer |-> answer, calls |-> n, asked |-> NoSquares ]

\* A step that called chess.move({from, to, promotion: 'q'}).
Asking(step, from, to) == [step EXCEPT !.asked = [from |-> from, to |-> to]]

Coord(r, c) == [row |-> r, col |-> c]

\* The bodies a client may send to POST /api/move: a field missing, the
\* white pawn's moves e2-e3, e2-e4, e3-e4, e4-e5, the jump e2-e5, the black
\* pawn's move e7-e5, and a row or a column beyond the board.
MoveInputs ==
    { [from |-> Missing,      to |-> Coord(5, 4)],
      [from |-> Coord(6, 4),  to |-> Missing],
      [from |-> Coord(6, 4),  to |-> Coord(5, 4)],
      [from |-> Coord(6, 4),  to |-> Coord(4, 4)],
      [from |-> Coord(5, 4),  to |-> Coord(4, 4)],
      [from |-> Coord(4, 4),  to |-> Coord(3, 4)],
      [from |-> Coord(6, 4),  to |-> Coord(3, 4)],
      [from |-> Coord(1, 4),  to |-> Coord(3, 4)],
      [from |-> Coord(8, 4),  to |-> Coord(4, 4)],
      [from |-> Coord(6, 4),  to |-> Coord(4, 8)] }

(***************************************************************************)
(* Initial state: the module has been loaded, no request is in progress.   *)
(* `entry` keeps, for an elicitation in progress, the engine state at its  *)
(* entry and whether no other POST has been processed since.  `probe` is   *)
(* used by the specification of the pure functions only.                   *)
(***************************************************************************)
NoEntry == [state |-> NewChess, alone |-> FALSE]

NoProbe == [kind |-> "none"]

Init ==
    /\ chess = NewChess
    /\ pc = [p \in Requests |-> "idle"]
    /\ retries = [p \in Requests |-> 0]
    /\ prompt = [p \in Requests |-> << >>]
    /\ calls = [p \in Requests |-> 0]
    /\ recv = [p \in Requests |-> << >>]
    /\ entry = [p \in Requests |-> NoEntry]
    /\ last = Step("listen", 0, NoArg, Pending, NoAnswer, 0)
    /\ probe = NoProbe

elicitation == <<pc, retries, prompt, calls, recv>>

\* Another request has been processed: no elicitation in progress has the
\* session to itself any more.
Disturbed == [p \in Requests |-> IF pc[p] = "awaiting" THEN [entry[p] EXCEPT !.alone = FALSE]
                                 ELSE entry[p]]

\* app.get('/api/board')
GetBoard ==
    /\ last' = Step("board", 0, NoArg, Ok(chess), NoAnswer, 0)
    /\ UNCHANGED <<chess, elicitation, entry, probe>>

\* Mutant: the turn check of POST /api/move is missing.
NotWhiteTurn_Missing(c) == FALSE

\* if (chess.turn() !== 'w')
NotWhiteTurn(c) == Turn(c) # "w"

\* Mutant: the !moveResult check is missing, the board is sent with status 200.
IllegalMove_AsSuccess(c) == Ok(c)

\* The response when chess.move returned null.
IllegalMove(c) == Err(ErrIllegal)

\* app.post('/api/move')
PostMove(from, to) ==
    LET arg == [from |-> from, to |-> to]
    IN  /\ IF from = Missing \/ to = Missing
           THEN /\ last' = Step("move", 0, arg, Err(ErrMissing), NoAnswer, 0)
                /\ UNCHANGED chess
           ELSE IF NotWhiteTurn(chess)
           THEN /\ last' = Step("move", 0, arg, Err(ErrNotWhite), NoAnswer, 0)
                /\ UNCHANGED chess
           ELSE LET fromSquare == coordsToAlgebraic(from.row, from.col)
                    toSquare   == coordsToAlgebraic(to.row, to.col)
                IN  IF ~MoveAccepted(chess, fromSquare, toSquare)
                    THEN /\ last' = Asking(Step("move", 0, arg, IllegalMove(chess), NoAnswer, 0),
                                           fromSquare, toSquare)
                         /\ UNCHANGED chess
                    ELSE /\ chess' = MoveApplied(chess, fromSquare, toSquare)
                         /\ last' = Asking(Step("move", 0, arg, Ok(chess'), NoAnswer, 0),
                                           fromSquare, toSquare)
        /\ entry' = Disturbed
        /\ UNCHANGED <<elicitation, probe>>

\* Mutant: the response is built before the engine is replaced.
PostReset_StaleReply ==
    /\ chess' = NewChess
    /\ last' = Step("reset", 0, NoArg, Ok(chess), NoAnswer, 0)
    /\ entry' = Disturbed
    /\ UNCHANGED <<elicitation, probe>>

\* app.post('/api/reset')
PostReset ==
    /\ chess' = NewChess
    /\ last' = Step("reset", 0, NoArg, Ok(chess'), NoAnswer, 0)
    /\ entry' = Disturbed
    /\ UNCHANGED <<elicitation, probe>>

\* The locals of a finished elicitation are gone.
Finish(p) ==
    /\ pc' = [pc EXCEPT ![p] = "idle"]
    /\ retries' = [retries EXCEPT ![p] = 0]
    /\ prompt' = [prompt EXCEPT ![p] = << >>]
    /\ calls' = [calls EXCEPT ![p] = 0]
    /\ recv' = [recv EXCEPT ![p] = << >>]
    /\ entry' = [q \in Requests |-> IF q = p THEN NoEntry ELSE Disturbed[q]]

\* Mutant: the entry check compares with 'W', which chess.turn() never returns.
NotAiTurn_WrongCase(c) == Turn(c) = "W"

\* if (chess.turn() === 'w'): the entry check of POST /api/ai-move
NotAiTurn(c) == Turn(c) = "w"

\* app.post('/api/ai-move') from its entry to the first await: the turn
\* check, the locals, and the first callOpenAiForMove(prompt).
AiMoveStart(p) ==
    /\ pc[p] = "idle"
    /\ IF NotAiTurn(chess)
       THEN /\ last' = Step("ai-move", p, NoArg, Err(ErrNotAI), NoAnswer, 0)
            /\ entry' = Disturbed
            /\ UNCHANGED elicitation
       ELSE /\ pc' = [pc EXCEPT ![p] = "awaiting"]
            /\ retries' = [retries EXCEPT ![p] = RetryBudget]
            /\ prompt' = [prompt EXCEPT ![p] = << buildOpenAIPrompt(chess) >>]
            /\ calls' = [calls EXCEPT ![p] = 1]
            /\ recv' = [recv EXCEPT ![p] = << >>]
            /\ entry' = [q \in Requests |->
                            IF q = p THEN [state |-> chess, alone |-> TRUE] ELSE Disturbed[q]]
            /\ last' = Step("ai-move", p, NoArg, Pending, NoAnswer, 1)
    /\ UNCHANGED <<chess, probe>>

\* Mutant: the claimed target square is compared with the move's origin.
found_Typo(c, aiMove) == \E m \in Moves(c) : m.from = aiMove.from /\ m.from = aiMove.to

\* possible.some(m => m.from === aiMove.from && m.to === aiMove.to)
found(c, aiMove) == \E m \in Moves(c) : m.from = aiMove.from /\ m.to = aiMove.to

\* Mutant: the sentinel none/none is special-cased and appends no note.
NoteFor_SentinelSilent(c, a) ==
    IF a.kind = "null" THEN << NoteEmpty >>
    ELSE IF a.kind = "malformed" THEN << NoteParse >>
    ELSE IF found(c, a) \/ (a.from = "none" /\ a.to = "none") THEN << >>
    ELSE << NoteIllegal(a.from, a.to) >>

\* Mutant: the notes for a null answer and for a parse failure are swapped.
NoteFor_Swapped(c, a) ==
    IF a.kind = "null" THEN << NoteParse >>
    ELSE IF a.kind = "malformed" THEN << NoteEmpty >>
    ELSE IF found(c, a) THEN << >>
    ELSE << NoteIllegal(a.from, a.to) >>

\* What one loop iteration appends to the prompt for answer a, as a sequence
\* of segments (empty when the iteration appends nothing).
NoteFor(c, a) ==
    IF a.kind = "null" THEN << NoteEmpty >>
    ELSE IF a.kind = "malformed" THEN << NoteParse >>
    ELSE IF found(c, a) THEN << >>
    ELSE << NoteIllegal(a.from, a.to) >>

\* Mutant: while (retries >= 0), one iteration too many.
LoopContinues_OffByOne(left) == left >= 0

\* while (retries > 0)
LoopContinues(left) == left > 0

\* Mutant: the !validMove check is missing, the board is sent with status 200.
Exhausted_AsSuccess(c) == Ok(c)

\* The code after the loop when validMove is still null.
Exhausted(c) == Err(ErrExhausted)

\* Mutant: a failed attempt rolls back with chess.load(fen), which drops the
\* history.
AfterFailedAttempt_ReloadsFen(c) == [c EXCEPT !.history = << >>]

\* The engine after a loop iteration that did not apply a move: the null,
\* catch and not-found branches do not call the engine's mutators.
AfterFailedAttempt(c) == c

\* Mutant: the null branch continues without retries--.
BudgetAfter_NullIsFree(r, a) == IF a.kind = "null" THEN r ELSE r - 1

\* retries--, on every path of the loop body that does not break
BudgetAfter(r, a) == r - 1

\* app.post('/api/ai-move') from the return of callOpenAiForMove to the next
\* await or to the response: one iteration of the while loop, the loop
\* test, and then either the next call or the code after the loop.
\* `accepts` is whether chess.move returns a move for a pair that was found.
OracleReturn(p, a, accepts) ==
    /\ pc[p] = "awaiting"
    /\ LET isFound == a.kind = "object" /\ found(chess, a)
           applies == isFound /\ accepts /\ MoveAccepted(chess, a.from, a.to)
           asking(step) == IF isFound THEN Asking(step, a.from, a.to) ELSE step
       IN  IF applies
           THEN \* validMove is set: break, then the success response
                /\ chess' = MoveApplied(chess, a.from, a.to)
                /\ last' = asking(Step("ai-move", p, NoArg, Ok(chess'), a, calls[p]))
                /\ Finish(p)
           ELSE LET noted == prompt[p] \o NoteFor(chess, a)
                    left  == BudgetAfter(retries[p], a)
                IN  /\ chess' = AfterFailedAttempt(chess)
                    /\ IF LoopContinues(left)
                       THEN /\ retries' = [retries EXCEPT ![p] = left]
                            /\ prompt' = [prompt EXCEPT ![p] = noted]
                            /\ calls' = [calls EXCEPT ![p] = calls[p] + 1]
                            /\ recv' = [recv EXCEPT ![p] = Append(recv[p], a)]
                            /\ entry' = [q \in Requests |->
                                            IF q = p THEN entry[p] ELSE Disturbed[q]]
                            /\ last' = asking(Step("ai-move", p, NoArg, Pending, a,
                                                   calls[p] + 1))
                            /\ UNCHANGED pc
                       ELSE /\ last' = asking(Step("ai-move", p, NoArg, Exhausted(chess), a,
                                                   calls[p]))
                            /\ Finish(p)
    /\ UNCHANGED probe

\* The return of an oracle call, with an engine whose move() accepts every
\* pair that moves() lists.
OracleStep(p, a) == OracleReturn(p, a, TRUE)

Next ==
    \/ GetBoard
    \/ \E body \in MoveInputs : PostMove(body.from, body.to)
    \/ PostReset
    \/ \E p \in Requests : AiMoveStart(p)
    \/ \E p \in Requests, a \in OracleAnswers(chess) : OracleStep(p, a)

Spec == Init /\ [][Next]_vars

\* The program run against an engine whose move() may return null for a pair
\* that moves() lists: the case the `if (validMove)` test at the break guards.
NextDefensive ==
    \/ GetBoard
    \/ \E body \in MoveInputs : PostMove(body.from, body.to)
    \/ PostReset
    \/ \E p \in Requests : AiMoveStart(p)
    \/ \E p \in Requests, a \in OracleAnswers(chess), accepts \in BOOLEAN :
          OracleReturn(p, a, accepts)

SpecDefensive == Init /\ [][NextDefensive]_vars

\* callOpenAiForMove returns for every call: the promise awaited by the
\* handler is settled by a string or by null, and Node then runs the
\* continuation of the handler.
OracleReturns(p) == \E a \in OracleAnswers(chess) : OracleStep(p, a)

SpecFair == Spec /\ \A p \in Requests : WF_vars(OracleReturns(p))

(***************************************************************************)
(* The pure functions on their own: the initial state draws an input, the  *)
(* action applies the function to it.  No request is processed.            *)
(***************************************************************************)
\* Rows and columns a caller may pass to coordsToAlgebraic.
CoordRange == -1..8

CoordProbes ==
    {[kind |-> "coords", row |-> r, col |-> c, done |-> FALSE, square |-> ""] :
        r \in CoordRange, c \in CoordRange}

\* The longest oracle text that is tried.
MaxText == 4

\* Texts are sequences of characters: the two braces, a letter and a blank.
Chars == {"{", "}", "a", " "}

RECURSIVE Texts(_)
Texts(n) ==
    IF n = 0 THEN {<< >>}
    ELSE Texts(n - 1) \cup {Append(t, ch) : t \in {u \in Texts(n - 1) : Len(u) = n - 1}, ch \in Chars}

\* String.prototype.trim: the blanks at both ends are removed.
RECURSIVE trim(_)
trim(t) ==
    IF t = << >> THEN t
    ELSE IF Head(t) = " " THEN trim(Tail(t))
    ELSE IF t[Len(t)] = " " THEN trim(SubSeq(t, 1, Len(t) - 1))
    ELSE t

\* [\s\S]*?\} tried from position k: the lazy star takes no character while
\* the next one is the closing brace, and one more otherwise; 0 when the text
\* ends first.
RECURSIVE LazyEnd(_, _)
LazyEnd(t, k) ==
    IF k > Len(t) THEN 0
    ELSE IF t[k] = "}" THEN k
    ELSE LazyEnd(t, k + 1)

\* The same with a greedy star: the last closing brace at or after k.
GreedyEnd(t, k) ==
    LET closes == {j \in k..Len(t) : t[j] = "}"}
    IN  IF closes = {} THEN 0 ELSE CHOOSE j \in closes : \A i \in closes : i <= j

NoMatch == [matched |-> FALSE, text |-> << >>]

\* The regular expression tried at the start positions i, i+1, ... in turn.
RECURSIVE MatchFrom(_, _)
MatchFrom(t, i) ==
    IF i > Len(t) THEN NoMatch
    ELSE IF t[i] = "{" /\ LazyEnd(t, i + 1) # 0
         THEN [matched |-> TRUE, text |-> SubSeq(t, i, LazyEnd(t, i + 1))]
         ELSE MatchFrom(t, i + 1)

\* Mutant: the star is greedy, /\{[\s\S]*\}/.
jsonMatch_Greedy(aiResponse) ==
    LET opens == {i \in 1..Len(aiResponse) :
                     aiResponse[i] = "{" /\ GreedyEnd(aiResponse, i + 1) # 0}
    IN  IF opens = {} THEN NoMatch
        ELSE LET i == CHOOSE x \in opens : \A y \in opens : x <= y
             IN  [matched |-> TRUE,
                  text |-> SubSeq(aiResponse, i, GreedyEnd(aiResponse, i + 1))]

\* aiResponse.match(/\{[\s\S]*?\}/)
jsonMatch(aiResponse) == MatchFrom(aiResponse, 1)

Returned(text) == [kind |-> "return", isNull |-> FALSE, json |-> text]

ReturnedNull == [kind |-> "return", isNull |-> TRUE, json |-> << >>]

Thrown == [kind |-> "throw", isNull |-> FALSE, json |-> << >>]

FellThrough == [kind |-> "none", isNull |-> FALSE, json |-> << >>]

\* The try block of callOpenAiForMove: create() rejects, or the completion
\* has no content and .trim() throws, or the content is trimmed and matched.
TryBlock(o) ==
    IF o.outcome = "rejects" \/ o.outcome = "nocontent" THEN Thrown
    ELSE LET found1 == jsonMatch(trim(o.raw))
         IN  IF found1.matched THEN Returned(found1.text) ELSE FellThrough

\* callOpenAiForMove: what the try block returns, and null after the catch
\* or when the block ends without a match.
callOpenAiForMove(o) ==
    LET r == TryBlock(o)
    IN  IF r.kind = "return" THEN r ELSE ReturnedNull

OracleOutcome(outcome, raw) ==
    [kind |-> "oracle", outcome |-> outcome, raw |-> raw, done |-> FALSE,
     result |-> FellThrough]

\* What the chat completion call may do: answer any text, reject, or answer
\* without content.
OracleProbes ==
    {OracleOutcome("text", t) : t \in Texts(MaxText)}
    \cup {OracleOutcome("rejects", << >>), OracleOutcome("nocontent", << >>)}

PureProbes == CoordProbes \cup OracleProbes

InitPure ==
    /\ chess = NewChess
    /\ pc = [p \in Requests |-> "idle"]
    /\ retries = [p \in Requests |-> 0]
    /\ prompt = [p \in Requests |-> << >>]
    /\ calls = [p \in Requests |-> 0]
    /\ recv = [p \in Requests |-> << >>]
    /\ entry = [p \in Requests |-> NoEntry]
    /\ last = Step("listen", 0, NoArg, Pending, NoAnswer, 0)
    /\ probe \in PureProbes

\* const square = coordsToAlgebraic(row, col)
Translate ==
    /\ probe.kind = "coords" /\ ~probe.done
    /\ probe' = [probe EXCEPT !.done = TRUE,
                              !.square = coordsToAlgebraic(probe.row, probe.col)]
    /\ UNCHANGED <<chess, elicitation, entry, last>>

\* const aiResponse = await callOpenAiForMove(prompt)
Extract ==
    /\ probe.kind = "oracle" /\ ~probe.done
    /\ probe' = [probe EXCEPT !.done = TRUE, !.result = callOpenAiForMove(probe)]
    /\ UNCHANGED <<chess, elicitation, entry, last>>

NextPure ==
    \/ Translate
    \/ Extract

SpecPure == InitPure /\ [][NextPure]_vars

(***************************************************************************)
(* Properties.                                                             *)
(***************************************************************************)
\* A step of the elicitation loop of request p: the return of an oracle call.
LoopStep(p) == pc[p] = "awaiting" /\ last'.op = "ai-move" /\ last'.req = p

\* The answer is an object whose (from,to) is in the engine's legal-move list.
Legal(c, a) == a.kind = "object" /\ \E m \in Moves(c) : m.from = a.from /\ m.to = a.to

\* C1: POST /api/ai-move changes the position only by a move whose (from,to)
\* pair is, in the state it is applied to, in the engine's legal-move list,
\* and an elicitation that ends without applying a move ends with HTTP 400.
C1_OnlyLegalMovesApplied ==
    [][\A p \in Requests : LoopStep(p) =>
         LET a == last'.answer
         IN  /\ chess' # chess =>
                  /\ a.kind = "object"
                  /\ \E m \in Moves(chess) :
                       /\ m.from = a.from /\ m.to = a.to
                       /\ History(chess') = Append(History(chess), m)
             /\ ~Legal(chess, a) => chess' = chess
             /\ (pc'[p] = "idle" /\ chess' = chess) => last'.status = 400]_vars

\* C1 witness: an elicitation has answered 400 after the sentinel none/none.
C1_Witness ==
    /\ last.op = "ai-move" /\ last.status = 400
    /\ last.answer = AnswerObject("none", "none")

\* C2: an elicitation makes at most 3 oracle calls, each one issued only when
\* the answers to all earlier ones have been processed, and it ends with the
\* exhausted error exactly when 3 calls were made and none applied a move.
C2_AtMostThreeSequentialCalls ==
    /\ [](\A p \in Requests :
            /\ calls[p] <= 3
            /\ pc[p] = "awaiting" => calls[p] = Len(recv[p]) + 1
            /\ pc[p] = "idle" => calls[p] = 0)
    /\ [][\A p \in Requests : LoopStep(p) =>
            /\ pc'[p] = "awaiting" =>
                 /\ calls'[p] = calls[p] + 1
                 /\ Len(recv'[p]) = calls[p]
            /\ pc'[p] = "idle" =>
                 ((last'.status = 400 /\ last'.body = [error |-> ErrExhausted])
                    <=> (calls[p] = 3 /\ History(chess') = History(chess)))
            /\ (pc'[p] = "idle" /\ ~Legal(chess, last'.answer)) =>
                 (calls[p] = 3 /\ last'.status = 400)]_vars

\* C2 witness: the exhausted error after a third illegal pair.
C2_Witness ==
    /\ last.op = "ai-move" /\ last.status = 400 /\ last.calls = 3
    /\ last.answer = AnswerObject("e7", "e4")

\* C3: when the k-th answer (k in 1..3) is a legal pair after k-1 failed
\* answers, that move is applied, no further call is made, exactly k calls
\* were made, and the response is 200 with the updated board, side to move
\* and history.
C3_LegalAnswerApplied ==
    /\ [](\A p \in Requests : \A i \in 1..Len(recv[p]) : recv[p][i].kind # "none")
    /\ [][\A p \in Requests : (LoopStep(p) /\ Legal(chess, last'.answer)) =>
            LET a == last'.answer
                m == CHOOSE x \in Moves(chess) : x.from = a.from /\ x.to = a.to
            IN  /\ calls[p] \in 1..3
                /\ Len(recv[p]) = calls[p] - 1
                /\ History(chess') = Append(History(chess), m)
                /\ Turn(chess') # Turn(chess)
                /\ pc'[p] = "idle"
                /\ last'.calls = calls[p]
                /\ last'.status = 200
                /\ last'.body = [ board         |-> getUnicodeBoard(chess'),
                                  currentPlayer |-> IF Turn(chess') = "w" THEN "white"
                                                    ELSE "black",
                                  history       |-> History(chess') ]]_vars

\* C3 witness: a move applied on the third attempt.
C3_Witness == last.op = "ai-move" /\ last.status = 200 /\ last.calls = 3

\* The note the loop is to append for a failed answer.
ExpectedNote(a) ==
    IF a.kind = "null" THEN NoteEmpty
    ELSE IF a.kind = "malformed" THEN NoteParse
    ELSE NoteIllegal(a.from, a.to)

\* C4: the prompt of attempt k is the base prompt followed by the notes for
\* the failed answers 1..k-1 in order; every failed answer appends exactly
\* the note of its kind (null: invalid or empty, parse failure: strictly
\* valid JSON, illegal pair: that pair) and costs one unit of the budget.
C4_PromptIsCumulative ==
    /\ [](\A p \in Requests : pc[p] = "awaiting" =>
            /\ Len(prompt[p]) = Len(recv[p]) + 1
            /\ \A i \in 1..Len(recv[p]) : prompt[p][i + 1] = ExpectedNote(recv[p][i])
            /\ retries[p] = RetryBudget - Len(recv[p]))
    /\ [][\A p \in Requests : (LoopStep(p) /\ pc'[p] = "awaiting") =>
            /\ prompt'[p] = Append(prompt[p], ExpectedNote(last'.answer))
            /\ retries'[p] = retries[p] - 1]_vars

\* C4 witness: the third prompt, after a null answer and then a parse failure.
C4_Witness ==
    \E p \in Requests :
        /\ pc[p] = "awaiting"
        /\ recv[p] = << AnswerNull, AnswerMalformed >>
        /\ Len(prompt[p]) = 3 /\ prompt[p][2] = NoteEmpty /\ prompt[p][3] = NoteParse

\* C5: POST /api/ai-move with White to move answers 400 not-your-turn, makes
\* no oracle call, consumes no budget and leaves the game unchanged.
C5_NotAiTurnRejected ==
    [][\A p \in Requests :
         (pc[p] = "idle" /\ last'.op = "ai-move" /\ last'.req = p /\ Turn(chess) = "w") =>
            /\ last'.status = 400
            /\ last'.body = [error |-> ErrNotAI]
            /\ chess' = chess
            /\ pc'[p] = "idle" /\ calls'[p] = 0 /\ retries'[p] = retries[p]
            /\ last'.calls = 0]_vars

\* C5 witness: the not-your-turn error of POST /api/ai-move.
C5_Witness ==
    /\ last.op = "ai-move" /\ last.status = 400
    /\ last.body = [error |-> ErrNotAI] /\ Turn(chess) = "w"

\* C6: while an elicitation is in progress no other POST /api/move,
\* POST /api/ai-move or POST /api/reset is processed.
C6_MutatingOperationsSerialized ==
    [][\A p \in Requests : pc[p] = "awaiting" =>
         /\ last'.op \notin {"move", "reset"}
         /\ last'.op = "ai-move" => last'.req = p]_vars

\* Both fields of the body of POST /api/move are present.
Present(arg) == arg.from # Missing /\ arg.to # Missing

\* C7: with Black to move, POST /api/move with from and to present answers
\* 400 with a non-empty error and leaves the game unchanged; a user move
\* directly after a successful user move is rejected.
C7_UserMoveOutOfTurnRejected ==
    /\ [][(last'.op = "move" /\ Present(last'.arg) /\ Turn(chess) = "b") =>
            /\ last'.status = 400
            /\ last'.body.error # ""
            /\ chess' = chess]_vars
    /\ [][(last.op = "move" /\ last.status = 200 /\ last'.op = "move") =>
            (last'.status = 400 /\ chess' = chess)]_vars

\* C7 witness: the black pawn's move e7-e5, sent by the user after White's
\* first move, has been rejected.
C7_Witness ==
    /\ last.op = "move" /\ last.status = 400
    /\ last.arg = [from |-> Coord(1, 4), to |-> Coord(3, 4)]
    /\ Turn(chess) = "b" /\ Len(History(chess)) = 1

\* Both coordinates of the body are on the board.
InRange(arg) ==
    /\ Present(arg)
    /\ arg.from.row \in Rows /\ arg.from.col \in Rows
    /\ arg.to.row \in Rows /\ arg.to.col \in Rows

\* The engine has a legal move between the squares the body names.
EngineAccepts(c, arg) ==
    \E m \in Moves(c) : /\ m.from = SquareName(arg.from.row, arg.from.col)
                        /\ m.to = SquareName(arg.to.row, arg.to.col)

\* C8: with White to move, POST /api/move for an on-board pair that is not a
\* legal move answers 400 with a non-empty error and leaves the game
\* unchanged, and GET /api/board reports the engine's state as it is.
C8_IllegalUserMoveRejected ==
    /\ [][(/\ last'.op = "move" /\ Turn(chess) = "w"
           /\ InRange(last'.arg) /\ ~EngineAccepts(chess, last'.arg)) =>
            /\ last'.status = 400
            /\ last'.body.error # ""
            /\ chess' = chess]_vars
    /\ [](last.op = "board" =>
            /\ last.status = 200
            /\ last.body.board = getUnicodeBoard(chess)
            /\ last.body.currentPlayer = (IF Turn(chess) = "w" THEN "white" ELSE "black")
            /\ last.body.history = History(chess))

\* C8 witness: the jump e2-e5 has been rejected with White still to move.
C8_Witness ==
    /\ last.op = "move" /\ last.status = 400
    /\ last.arg = [from |-> Coord(6, 4), to |-> Coord(3, 4)]
    /\ last.body = [error |-> ErrIllegal]
    /\ Turn(chess) = "w"

\* C9: White is to move iff the history has an even number of moves; a
\* successful POST /api/move happens with White to move, appends one white
\* move and makes Black the side to move; every response reports the side to
\* move the engine has when the response is sent.
C9_SideToMoveAlternates ==
    /\ [](/\ Turn(chess) = "w" <=> Len(History(chess)) % 2 = 0
          /\ last.status = 200 =>
               last.body.currentPlayer = (IF Turn(chess) = "w" THEN "white" ELSE "black"))
    /\ [][(last'.op = "move" /\ last'.status = 200) =>
            /\ Turn(chess) = "w"
            /\ Len(History(chess')) = Len(History(chess)) + 1
            /\ SubSeq(History(chess'), 1, Len(History(chess))) = History(chess)
            /\ History(chess')[Len(History(chess'))].color = "w"
            /\ Turn(chess') = "b"]_vars

\* C9 witness: the opening move e2-e4 has been accepted; Black is to move
\* and the history has one entry.
C9_Witness ==
    /\ last.op = "move" /\ last.status = 200
    /\ last.arg = [from |-> Coord(6, 4), to |-> Coord(4, 4)]
    /\ last.body.currentPlayer = "black" /\ Len(last.body.history) = 1

\* The starting position of the modelled fragment, White to move, no history.
IsStart(c) ==
    /\ Turn(c) = "w"
    /\ History(c) = << >>
    /\ \A r \in Rows, f \in Rows :
         Board(c)[r][f] = (IF <<r, f>> = <<6, 4>> THEN "pw"
                           ELSE IF <<r, f>> = <<1, 4>> THEN "pb" ELSE "null")

\* The response that shows the starting position.
IsStartReply(l) ==
    /\ l.status = 200
    /\ l.body.currentPlayer = "white"
    /\ l.body.history = << >>
    /\ \A r \in Rows, f \in Rows :
         l.body.board[r][f] = (IF <<r, f>> = <<6, 4>> THEN "U+2659"
                               ELSE IF <<r, f>> = <<1, 4>> THEN "U+265F" ELSE ".")

\* C10: POST /api/reset yields the starting position, White to move and an
\* empty history, from any state, and a reset directly after a reset returns
\* the same response and leaves the same state.
C10_ResetIdempotent ==
    /\ [][last'.op = "reset" => IsStart(chess') /\ IsStartReply(last')]_vars
    /\ [][(last.op = "reset" /\ last'.op = "reset") =>
            (last' = last /\ chess' = chess)]_vars

\* C10 witness: a reset processed while an elicitation that began in another
\* position is still waiting for the oracle.
C10_Witness ==
    /\ last.op = "reset" /\ IsStart(chess) /\ IsStartReply(last)
    /\ \E p \in Requests : pc[p] = "awaiting" /\ prompt[p][1].fen.active = "b"

\* C11: a POST /api/move with a coordinate outside 0..7 is answered with a
\* 400 error, the coordinate is never made into a square name that is passed
\* to the engine, and the game is unchanged.
C11_OutOfRangeRejectedByTranslator ==
    [][(last'.op = "move" /\ Present(last'.arg) /\ ~InRange(last'.arg)) =>
         /\ last'.status = 400
         /\ last'.asked = NoSquares
         /\ chess' = chess]_vars

\* The 64 square names by row (0: rank 8) and column (0: file a).
SquareTable ==
    << <<"a8", "b8", "c8", "d8", "e8", "f8", "g8", "h8">>,
       <<"a7", "b7", "c7", "d7", "e7", "f7", "g7", "h7">>,
       <<"a6", "b6", "c6", "d6", "e6", "f6", "g6", "h6">>,
       <<"a5", "b5", "c5", "d5", "e5", "f5", "g5", "h5">>,
       <<"a4", "b4", "c4", "d4", "e4", "f4", "g4", "h4">>,
       <<"a3", "b3", "c3", "d3", "e3", "f3", "g3", "h3">>,
       <<"a2", "b2", "c2", "d2", "e2", "f2", "g2", "h2">>,
       <<"a1", "b1", "c1", "d1", "e1", "f1", "g1", "h1">> >>

AllSquares == {SquareTable[r + 1][c + 1] : r \in Rows, c \in Rows}

\* The inverse translation of section 4.1: the (row, col) of a square name.
fromAlgebraic(square) ==
    CHOOSE rc \in Rows \X Rows : SquareTable[rc[1] + 1][rc[2] + 1] = square

\* C12: for row and col in 0..7 the translator returns file 'a'+col and rank
\* 8-row ((0,0) a8, (7,7) h1, (0,7) h8, (7,0) a1), it maps the 64 pairs
\* one-to-one onto the 64 squares, and fromAlgebraic takes the result back
\* to (row, col).
C12_TranslatorBijective ==
    /\ (probe.kind = "coords" /\ probe.done /\ probe.row \in Rows /\ probe.col \in Rows) =>
          /\ probe.square = SquareTable[probe.row + 1][probe.col + 1]
          /\ probe.square \in AllSquares
          /\ fromAlgebraic(probe.square) = <<probe.row, probe.col>>
          /\ (probe.row = 0 /\ probe.col = 0) => probe.square = "a8"
          /\ (probe.row = 7 /\ probe.col = 7) => probe.square = "h1"
          /\ (probe.row = 0 /\ probe.col = 7) => probe.square = "h8"
          /\ (probe.row = 7 /\ probe.col = 0) => probe.square = "a1"
    /\ Cardinality(AllSquares) = 64
    /\ {coordsToAlgebraic(r, c) : r \in Rows, c \in Rows} = AllSquares

\* C12 witness: (7,7) has been translated to h1.
C12_Witness ==
    /\ probe.kind = "coords" /\ probe.done
    /\ probe.row = 7 /\ probe.col = 7 /\ probe.square = "h1"

\* C13: the recent-moves list of a prompt holds the last min(L,8) moves of
\* the history of length L, oldest first, each labelled with its 1-based
\* position in the whole history; no label is zero or negative.
C13_RecentMovesNumbered ==
    \A p \in Requests : pc[p] = "awaiting" =>
        LET h      == History(entry[p].state)
            L      == Len(h)
            k      == IF L < 8 THEN L ELSE 8
            listed == prompt[p][1].moves
        IN  L > 0 =>
              /\ Len(listed) = k
              /\ \A i \in 1..k :
                   /\ listed[i].from = h[L - k + i].from
                   /\ listed[i].to = h[L - k + i].to
                   /\ listed[i].moveNum = L - k + i
                   /\ listed[i].moveNum > 0

\* The step ends request p's elicitation with the exhausted error.
EndsExhausted(p) ==
    LoopStep(p) /\ pc'[p] = "idle" /\ last'.status = 400

\* C14: a loop step that does not apply a move leaves the game unchanged, a
\* step that applies one ends the elicitation, so an elicitation during which
\* no other POST is processed sees the state of its entry until it applies
\* its move, and ends exhausted in that state; every step that answers with
\* an error leaves the game unchanged.
C14_FailedAttemptsReadOnly ==
    /\ [](\A p \in Requests :
            (pc[p] = "awaiting" /\ entry[p].alone) => chess = entry[p].state)
    /\ [][\A p \in Requests : LoopStep(p) =>
            /\ ~Legal(chess, last'.answer) => chess' = chess
            /\ chess' # chess =>
                 /\ pc'[p] = "idle" /\ last'.status = 200
                 /\ Len(History(chess')) = Len(History(chess)) + 1
            /\ (EndsExhausted(p) /\ entry[p].alone) => chess' = entry[p].state]_vars
    /\ [][last'.status = 400 => chess' = chess]_vars

\* C14 witness: two failed attempts of an undisturbed elicitation have left
\* the game as it was at entry.
C14_Witness ==
    \E p \in Requests :
        /\ pc[p] = "awaiting" /\ entry[p].alone /\ calls[p] = 3
        /\ recv[p] = << AnswerObject("none", "none"), AnswerMalformed >>
        /\ chess = entry[p].state

\* C15: while a request waits on the oracle its budget is in 1..3; every
\* loop step either applies a move and answers 200, or decrements the budget
\* and continues with a positive budget, or decrements it to 0 and answers
\* 400; a response is sent by the ending step only; and, every oracle call
\* returning, a started elicitation ends.
C15_ElicitationTerminates ==
    /\ [](\A p \in Requests : pc[p] = "awaiting" => retries[p] \in 1..RetryBudget)
    /\ [][\A p \in Requests : LoopStep(p) =>
            \/ /\ pc'[p] = "idle" /\ last'.status = 200 /\ chess' # chess
            \/ /\ pc'[p] = "idle" /\ last'.status = 400 /\ retries[p] = 1
            \/ /\ pc'[p] = "awaiting" /\ last'.status = Pending.status
               /\ retries'[p] = retries[p] - 1 /\ retries'[p] > 0]_vars
    /\ \A p \in Requests : (pc[p] = "awaiting") ~> (pc[p] = "idle")

\* C15 witness: an elicitation has ended after three calls that all failed in
\* transport, the budget being spent.
C15_Witness ==
    /\ last.op = "ai-move" /\ last.status = 400 /\ last.answer = AnswerNull
    /\ last.calls = RetryBudget /\ pc[last.req] = "idle"

\* C16: whenever a loop step of an AI elicitation applies a move, Black is
\* the side to move in the state the move is applied to, so the move is
\* Black's and White is to move afterwards.
C16_AiAppliesOnlyBlackMoves ==
    [][\A p \in Requests : (LoopStep(p) /\ chess' # chess) =>
          /\ Turn(chess) = "b"
          /\ Turn(chess') = "w"]_vars

\* C17: every oracle call of an elicitation, the first one and each retry,
\* is sent the builder's output for the game as it is when the call is
\* issued, followed by the notes.
C17_PromptBuiltFromCurrentState ==
    [][\A p \in Requests :
          (last'.op = "ai-move" /\ last'.req = p /\ pc'[p] = "awaiting") =>
              /\ Len(prompt'[p]) = calls'[p]
              /\ Head(prompt'[p]) = buildOpenAIPrompt(chess')]_vars

\* C18: a loop step whose answer is in the legal-move list but whose
\* application the engine refuses leaves the game unchanged, spends one
\* attempt, and either continues with the illegal-move note for that pair
\* appended to the prompt or ends with the exhausted error.
C18_RejectedFoundMoveNoted ==
    [][\A p \in Requests :
          (LoopStep(p) /\ Legal(chess, last'.answer) /\ chess' = chess) =>
              \/ /\ pc'[p] = "awaiting"
                 /\ retries'[p] = retries[p] - 1
                 /\ prompt'[p] = Append(prompt[p],
                                        NoteIllegal(last'.answer.from, last'.answer.to))
              \/ /\ pc'[p] = "idle" /\ retries[p] = 1
                 /\ last'.status = 400 /\ last'.body = [error |-> ErrExhausted]]_vars

\* Black is to move and the engine lists no legal move.
BlackStuck(c) == Turn(c) = "b" /\ Moves(c) = {}

Sentinel == AnswerObject("none", "none")

\* C19: a loop step whose answer is the sentinel none/none does not call
\* chess.move, leaves the game unchanged, and either continues with the
\* illegal-move note citing none/none appended and one attempt spent, or is
\* the third call and ends with the exhausted error.  A loop step taken when
\* Black is to move without a legal move applies nothing whatever the
\* answer, continues to the next call before the third, and ends at the
\* third with the exhausted error; an undisturbed elicitation entered in
\* such a state stays in it.
C19_SentinelIsNotFound ==
    /\ [][\A p \in Requests : (LoopStep(p) /\ last'.answer = Sentinel) =>
            /\ chess' = chess /\ last'.asked = NoSquares
            /\ \/ /\ pc'[p] = "awaiting"
                  /\ prompt'[p] = Append(prompt[p], NoteIllegal("none", "none"))
                  /\ retries'[p] = retries[p] - 1
                  /\ calls'[p] = calls[p] + 1
               \/ /\ pc'[p] = "idle" /\ calls[p] = RetryBudget
                  /\ last'.status = 400 /\ last'.body = [error |-> ErrExhausted]]_vars
    /\ [][\A p \in Requests : (LoopStep(p) /\ BlackStuck(chess)) =>
            /\ chess' = chess
            /\ \/ /\ pc'[p] = "awaiting" /\ calls[p] < RetryBudget
                  /\ calls'[p] = calls[p] + 1
               \/ /\ pc'[p] = "idle" /\ calls[p] = RetryBudget
                  /\ last'.calls = RetryBudget
                  /\ last'.status = 400 /\ last'.body = [error |-> ErrExhausted]]_vars
    /\ [](\A p \in Requests :
            (pc[p] = "awaiting" /\ entry[p].alone /\ BlackStuck(entry[p].state))
                => BlackStuck(chess))

\* C19 witness: Black had no legal move, three calls were made, the third
\* answer was the sentinel, and the elicitation ended with the exhausted
\* error.
C19_Witness ==
    /\ BlackStuck(chess)
    /\ last.op = "ai-move" /\ last.answer = Sentinel /\ last.calls = RetryBudget
    /\ last.status = 400 /\ last.body = [error |-> ErrExhausted]

\* The opening braces of t that have a closing brace after them.
Opens(t) == {i \in 1..Len(t) : t[i] = "{" /\ \E j \in (i + 1)..Len(t) : t[j] = "}"}

Least(S) == CHOOSE x \in S : \A y \in S : x <= y

\* C20: the client always returns and never raises; for a raw text it
\* returns the piece from the first opening brace that has a closing brace
\* after it to the first closing brace after that opening brace, null
\* exactly when there is no such opening brace, and null when the call fails.
C20_ClientExtractsFirstLazyObject ==
    (probe.kind = "oracle" /\ probe.done) =>
        /\ probe.result.kind = "return"
        /\ probe.outcome # "text" => probe.result.isNull
        /\ probe.outcome = "text" =>
             LET t == probe.raw
             IN  /\ probe.result.isNull <=> Opens(t) = {}
                 /\ Opens(t) # {} =>
                      LET i == Least(Opens(t))
                          j == Least({k \in (i + 1)..Len(t) : t[k] = "}"})
                      IN  probe.result.json = SubSeq(t, i, j)

\* C20 witness: for the nested text {{}} the client has returned {{}, which
\* stops at the inner closing brace.
C20_Witness ==
    /\ probe.kind = "oracle" /\ probe.done
    /\ probe.raw = << "{", "{", "}", "}" >>
    /\ probe.result = Returned(<< "{", "{", "}" >>)

====
